---- MODULE Spec2Model ----
(***************************************************************************)
(* Model of SignatureOptimizerMetricBoosted                                *)
(* (dspy/teleprompt/signature_opt_metric_boosted.py): the compile search   *)
(* loop, its per-predictor store of evaluated candidates, the              *)
(* MetricObservationHistory feedback memory and the final sort and         *)
(* deduplication.  The language model and the evaluator are external: each *)
(* of their answers is a nondeterministic choice from a small set.         *)
(***************************************************************************)
EXTENDS Naturals, Integers, Sequences, FiniteSets, TLC

(***************************************************************************)
(* Bounds of the model.                                                    *)
(***************************************************************************)
MaxPred == 2
MaxBreadth == 3
MaxDepth == 2
MaxEvals == 4
DevN == 2
HistBreadth == 4
MaxRenderLen == 3

(***************************************************************************)
(* Program constants.                                                      *)
(***************************************************************************)
max_metric_observations == 15
tokens_incorrect_example == 2000
example_token_budget == 300
NumProposals == 3
InitLastBatchScore == -1

(***************************************************************************)
(* Text.  A string is a sequence of one-character strings, so that         *)
(* str.strip and re.findall are computed and not assumed.                  *)
(***************************************************************************)
DQ == "\""
SP == " "
Digits == <<"0", "1", "2", "3", "4", "5", "6", "7", "8", "9">>

IsDigit(ch) == \E i \in 1..10 : Digits[i] = ch

DigitVal(ch) == (CHOOSE i \in 1..10 : Digits[i] = ch) - 1

RECURSIVE LStrip(_, _)
LStrip(s, chars) ==
    IF s = <<>> \/ Head(s) \notin chars THEN s ELSE LStrip(Tail(s), chars)

RECURSIVE RStrip(_, _)
RStrip(s, chars) ==
    IF s = <<>> \/ s[Len(s)] \notin chars THEN s
    ELSE RStrip(SubSeq(s, 1, Len(s) - 1), chars)

\* str.strip(chars)
Strip(s, chars) == RStrip(LStrip(s, chars), chars)

\* c.proposed_instruction.strip('"').strip()
Normalize(s) == Strip(Strip(s, {DQ}), {SP})

\* re.findall(r'\d+', str(text)) followed by int(): every maximal digit run.
RECURSIVE ScanDigits(_, _, _, _)
ScanDigits(s, i, inrun, acc) ==
    IF i > Len(s) THEN
        <<>>
    ELSE IF IsDigit(s[i]) THEN
        LET v == (IF inrun THEN acc * 10 ELSE 0) + DigitVal(s[i])
        IN  IF i = Len(s) \/ ~IsDigit(s[i + 1])
            THEN <<v>> \o ScanDigits(s, i + 1, FALSE, 0)
            ELSE ScanDigits(s, i + 1, TRUE, v)
    ELSE ScanDigits(s, i + 1, FALSE, 0)

safe_strip(text) == ScanDigits(text, 1, FALSE, 0)

\* str([]) of the list that replaces every index field when no failed row is shown
EmptyListText == <<"[", "]">>

(***************************************************************************)
(* Sequences.                                                              *)
(***************************************************************************)
Range(s) == {s[i] : i \in 1..Len(s)}

RECURSIVE SeqsOfLen(_, _)
SeqsOfLen(S, n) ==
    IF n = 0 THEN {<<>>}
    ELSE {Append(s, x) : s \in SeqsOfLen(S, n - 1), x \in S}

Prefix(s, n) == SubSeq(s, 1, IF n < Len(s) THEN n ELSE Len(s))

RECURSIVE Flatten(_)
Flatten(ss) == IF ss = <<>> THEN <<>> ELSE Head(ss) \o Flatten(Tail(ss))

(***************************************************************************)
(* Programs, candidates and the student handed to compile.                 *)
(*   A predictor is the sequence of its instruction-holding slots: one     *)
(*   slot (extended_signature) or two (extended_signature1 and             *)
(*   extended_signature2).  A slot is its instructions and the name of its *)
(*   last field.                                                           *)
(***************************************************************************)
IA == <<"a">>
IQA == <<DQ, "a", DQ>>
IC == <<"c">>
PP == <<"p">>
PQ == <<"q">>
IB == <<"b">>

Sig(i, f) == [instructions |-> i, prefix |-> f]

Cand(i, f) == [proposed_instruction |-> i, proposed_prefix_for_output_field |-> f]

\* What the prompt model may answer to a request for candidates.
RawCandidates == {Cand(IQA, PP), Cand(IA, PQ), Cand(IB, PP)}

BaseSig(i) == Sig(IF i % 2 = 1 THEN IA ELSE IC, PP)

Student(np, dual) ==
    [i \in 1..np |-> IF dual THEN <<BaseSig(i), BaseSig(i)>> ELSE <<BaseSig(i)>>]

\* hasattr(predictor, 'extended_signature')
HasExtendedSignature(pred) == Len(pred) = 1

\* predictor.extended_signature(1).instructions / .fields[-1].name
BasicInstruction(pred) == pred[1].instructions
BasicPrefix(pred) == pred[1].prefix

\* Mutant of SetSignature: the prefix of the output field is left alone.
SetSignatureInstructionOnly(pred, instruction, prefix) ==
    [k \in 1..Len(pred) |-> Sig(instruction, pred[k].prefix)]

\* Lines 370-377 and 429-436: every slot of the predictor gets the pair.
SetSignature(pred, instruction, prefix) ==
    [k \in 1..Len(pred) |-> Sig(instruction, prefix)]

\* One evaluation per candidate of each pool, over all rounds.
RECURSIVE TotalEvals(_, _, _)
TotalEvals(np, b, d) ==
    IF d = 0 THEN 0
    ELSE TotalEvals(np, b, d - 1) + np * (IF np > 1 THEN b * d ELSE b)

\* An evaluation set, as the rows it holds.
OneRowEvalset == <<0>>

Configs ==
    {c \in [np : 1..MaxPred, breadth : 2..MaxBreadth, depth : 1..MaxDepth,
            dual : BOOLEAN, evalset : {OneRowEvalset}] :
        TotalEvals(c.np, c.breadth, c.depth) <= MaxEvals}

DevRows == 0..(DevN - 1)

VARIABLES
    cfg,                \* breadth, depth, number and shape of the predictors
    student,            \* the program passed to compile
    pc,                 \* the statement compile is at
    err,                \* the exception compile raised, "none" while it runs
    module_clone,       \* the working clone
    all_candidates,     \* per predictor, every candidate generated so far
    latest_candidates,  \* per predictor, the candidates generated last
    evaluated_candidates, \* per predictor, its records in insertion order
    d, p_i, c_i,        \* round, predictor and candidate being worked on
    score, correct,     \* the evaluator's last answer
    current, used, unused, next_id, \* MetricObservationHistory
    total_calls,
    latest_scores,
    result,             \* what compile returned
    eval_log,           \* history: every call of the evaluator, in order
    proposal,           \* the index fields of the last proposed observations
    prompt_log,         \* history: every request to the prompt model, in order
    reconciliation,     \* the parent-index fields of the last reconciled observations
    chosen,             \* history: every best candidate fixed on the clone, in order
    render,             \* a table of rows, a budget and what the renderers make of them
    chat                \* one TogetherApi chat request and its attempts

vars == <<cfg, student, pc, err, module_clone, all_candidates, latest_candidates,
          evaluated_candidates, d, p_i, c_i, score, correct, current, used,
          unused, next_id, total_calls, latest_scores, result, eval_log,
          proposal, prompt_log, reconciliation, chosen, render, chat>>

NoResult == [program |-> <<>>, candidate_programs |-> <<>>, total_calls |-> 0]

\* No table is being rendered on its own.
NoRender == [stage |-> "idle"]

\* No chat request is being made.
NoChat == [stage |-> "idle"]

InitCompile(configs) ==
    /\ cfg \in configs
    /\ student = Student(cfg.np, cfg.dual)
    /\ pc = "construct"
    /\ err = "none"
    /\ module_clone = student
    /\ all_candidates = <<>>
    /\ latest_candidates = <<>>
    /\ evaluated_candidates = <<>>
    /\ d = 0
    /\ p_i = 1
    /\ c_i = 1
    /\ score = 0
    /\ correct = {}
    /\ current = <<>>
    /\ used = <<>>
    /\ unused = <<>>
    /\ next_id = 1
    /\ total_calls = 0
    /\ latest_scores = <<>>
    /\ result = NoResult
    /\ eval_log = <<>>
    /\ proposal = <<>>
    /\ prompt_log = <<>>
    /\ reconciliation = <<>>
    /\ chosen = <<>>

InitWith(configs) ==
    /\ InitCompile(configs)
    /\ render = NoRender
    /\ chat = NoChat

(***************************************************************************)
(* The evaluator and the token-budgeted rendering of rows.                 *)
(***************************************************************************)
\* Evaluate's aggregate: the percentage of rows the metric accepts.
Score(ok) == (100 * Cardinality(ok)) \div DevN

\* len(encoder.encode(' '.join(row))): the token cost of a devset row.
TokenCount(r) == IF r % 2 = 1 THEN 2100 ELSE IF r % 4 = 2 THEN 40 ELSE 250

RECURSIVE RowsWhere(_, _, _)
\* devset_annotated[devset_annotated["correct"] == flag], rows by index from r on
RowsWhere(ok, flag, r) ==
    IF r >= DevN THEN <<>>
    ELSE (IF (r \in ok) = flag THEN <<r>> ELSE <<>>) \o RowsWhere(ok, flag, r + 1)

RECURSIVE BudgetRowsNoDeduct(_, _, _)
\* Mutant of BudgetRows: the cost of a kept row is not deducted.
BudgetRowsNoDeduct(df, n, budget_remaining) ==
    IF n >= Len(df) THEN n
    ELSE IF TokenCount(df[n + 1]) > budget_remaining THEN n
    ELSE BudgetRowsNoDeduct(df, n + 1, budget_remaining)

RECURSIVE BudgetRows(_, _, _)
\* the while loop of budgeted_df_stringify: nrows_to_keep reached from row n
BudgetRows(df, n, budget_remaining) ==
    IF n >= Len(df) THEN n
    ELSE IF TokenCount(df[n + 1]) > budget_remaining THEN n
    ELSE BudgetRows(df, n + 1, budget_remaining - TokenCount(df[n + 1]))

\* budgeted_df_stringify: the rows shown; none stands for the "None Shown" text
budgeted_df_stringify(df, budget) == Prefix(df, BudgetRows(df, 0, budget))

NoneShown(df, budget) == BudgetRows(df, 0, budget) = 0

\* The "None Shown - n present, too long to show" text.
NoneShownText(n) == [kind |-> "None Shown", present |-> n]

\* The markdown of the rows kept.
RowsText(rows) == [kind |-> "rows", rows |-> rows]

\* Mutant of Rendering: no sentinel, the markdown of no row instead.
RenderingWithoutSentinel(df, budget) == RowsText(budgeted_df_stringify(df, budget))

\* Lines 237-239: what budgeted_df_stringify returns.
Rendering(df, budget) ==
    IF NoneShown(df, budget) THEN NoneShownText(Len(df))
    ELSE RowsText(budgeted_df_stringify(df, budget))

(***************************************************************************)
(* MetricObservationHistory.  An observation is its identity (the order of *)
(* its creation) and the index of its failure_exemplars frame.             *)
(***************************************************************************)
Observation(id, rows) == [id |-> id, failure_exemplars |-> rows]

RECURSIVE InBounds(_, _)
\* [index for index in citations if index < bound]
InBounds(citations, bound) ==
    IF citations = <<>> THEN <<>>
    ELSE (IF Head(citations) < bound THEN <<Head(citations)>> ELSE <<>>)
         \o InBounds(Tail(citations), bound)

RECURSIVE SortedSeq(_)
\* list(set(...)) of small non-negative integers
SortedSeq(S) ==
    IF S = {} THEN <<>>
    ELSE LET m == CHOOSE x \in S : \A y \in S : x <= y
         IN  <<m>> \o SortedSeq(S \ {m})

\* The index fields as propose reads them (lines 254-255).
ProposalFields(fields, failed) ==
    IF NoneShown(failed, tokens_incorrect_example)
    THEN [i \in 1..Len(fields) |-> EmptyListText]
    ELSE fields

\* Mutant of ProposeRaises: only the first completion's field is tested.
ProposeRaisesOnFirstOnly(fields, failed) ==
    Len(safe_strip(ProposalFields(fields, failed)[1])) = 0

\* Line 259: some completion's field has no digit run.
ProposeRaises(fields, failed) ==
    \E i \in 1..Len(fields) : Len(safe_strip(ProposalFields(fields, failed)[i])) = 0

\* Lines 257-264: one observation per completion.
NewObservations(fields, failed, first_id) ==
    [i \in 1..Len(fields) |->
        Observation(first_id + i - 1,
                    InBounds(safe_strip(ProposalFields(fields, failed)[i]), DevN))]

\* Lines 278-281: the parent indices kept, given the list `used` as it is then.
SafeParentIndices(field, used_now) ==
    LET parsed == safe_strip(field)
    IN  IF Len(InBounds(parsed, Len(used_now))) < Len(parsed)
        THEN InBounds(parsed, Len(used_now))
        ELSE parsed

\* Line 282: corresponding_parent_metric_observations.
ParentsTaken(field, used_now) ==
    [k \in 1..Len(SafeParentIndices(field, used_now)) |->
        used_now[SafeParentIndices(field, used_now)[k] + 1]]

\* Lines 278-284 for one completion, given the list `used` as it is then.
Reconciled(field, used_now, id) ==
    LET parents == ParentsTaken(field, used_now)
        rows == UNION {Range(parents[k].failure_exemplars) : k \in 1..Len(parents)}
    IN  Observation(id, SortedSeq(rows))

RECURSIVE ReconcileAll(_, _, _, _)
\* The loop of lines 277-284 from completion i on.
ReconcileAll(fields, i, used_now, id) ==
    IF i > Len(fields) THEN used_now
    ELSE ReconcileAll(fields, i + 1,
                      Append(used_now, Reconciled(fields[i], used_now, id)), id + 1)

\* Mutant of ConsolidationDue: due already at the limit.
ConsolidationDueAtLimit(used_now) == Len(used_now) >= max_metric_observations

\* Line 269.
ConsolidationDue(used_now) == Len(used_now) > max_metric_observations

\* n of the reconcile request (line 275).
NumReconciled == max_metric_observations \div 2

(***************************************************************************)
(* The store of evaluated candidates: a dict keyed by (instruction,        *)
(* prefix), kept as the sequence of its values in insertion order.         *)
(***************************************************************************)
Record(sc, program, instruction, prefix, depth) ==
    [score |-> sc, program |-> program, instruction |-> instruction,
     prefix |-> prefix, depth |-> depth]

\* The position of key (instruction, prefix) in the dict, 0 when absent.
KeyIndex(store, instruction, prefix) ==
    IF \E k \in 1..Len(store) :
           store[k].instruction = instruction /\ store[k].prefix = prefix
    THEN CHOOSE k \in 1..Len(store) :
           store[k].instruction = instruction /\ store[k].prefix = prefix
    ELSE 0

\* Mutant of ReplaceEntry: an equal score overwrites the stored record.
ReplaceEntryOnTie(store, instruction, prefix, sc) ==
    ~(\E k \in 1..Len(store) :
          /\ store[k].instruction = instruction
          /\ store[k].prefix = prefix
          /\ store[k].score > sc)

\* Mutant of ReplaceEntry: every evaluation overwrites the record.
ReplaceEntryAlways(store, instruction, prefix, sc) == TRUE

\* Lines 403-407.
ReplaceEntry(store, instruction, prefix, sc) ==
    LET k == KeyIndex(store, instruction, prefix)
    IN  ~(k > 0 /\ store[k].score >= sc)

\* Lines 403-416: assigning to a present key keeps the key's position.
RecordCandidate(store, rec) ==
    LET k == KeyIndex(store, rec.instruction, rec.prefix)
    IN  IF ~ReplaceEntry(store, rec.instruction, rec.prefix, rec.score) THEN store
        ELSE IF k = 0 THEN Append(store, rec)
        ELSE [store EXCEPT ![k] = rec]

\* Mutant of BestCandidate: the best of the records written in the current
\* round, the first record when the round wrote none.
BestCandidateOfRound(store) ==
    LET ofRound == {k \in 1..Len(store) : store[k].depth = d}
    IN  IF ofRound = {} THEN store[1]
        ELSE store[CHOOSE k \in ofRound :
                       \A j \in ofRound : store[j].score <= store[k].score]

\* Mutant of BestCandidate: the last record with the greatest score.
BestCandidateLastMax(store) ==
    LET k == CHOOSE k \in 1..Len(store) :
                 /\ \A j \in 1..Len(store) : store[j].score <= store[k].score
                 /\ \A j \in (k + 1)..Len(store) : store[j].score < store[k].score
    IN  store[k]

\* max(values, key=score): the first record with the greatest score (line 428).
BestCandidate(store) ==
    LET k == CHOOSE k \in 1..Len(store) :
                 /\ \A j \in 1..Len(store) : store[j].score <= store[k].score
                 /\ \A j \in 1..(k - 1) : store[j].score < store[k].score
    IN  store[k]

RECURSIVE InsertAsc(_, _)
InsertAsc(sorted, rec) ==
    IF sorted = <<>> THEN <<rec>>
    ELSE IF Head(sorted).score <= rec.score
         THEN <<Head(sorted)>> \o InsertAsc(Tail(sorted), rec)
         ELSE <<rec>> \o sorted

RECURSIVE SortDescMissingReverse(_)
\* Mutant of SortDesc: the sort without reverse=True.
SortDescMissingReverse(records) ==
    IF records = <<>> THEN <<>>
    ELSE InsertAsc(SortDescMissingReverse(SubSeq(records, 1, Len(records) - 1)),
                   records[Len(records)])

RECURSIVE InsertDescBeforeTies(_, _)
\* Mutant of InsertDesc: an unstable sort, the later of two equal scores first.
InsertDescBeforeTies(sorted, rec) ==
    IF sorted = <<>> THEN <<rec>>
    ELSE IF Head(sorted).score > rec.score
         THEN <<Head(sorted)>> \o InsertDescBeforeTies(Tail(sorted), rec)
         ELSE <<rec>> \o sorted

RECURSIVE InsertDesc(_, _)
\* rec placed after every record whose score is not smaller (a stable sort)
InsertDesc(sorted, rec) ==
    IF sorted = <<>> THEN <<rec>>
    ELSE IF Head(sorted).score >= rec.score
         THEN <<Head(sorted)>> \o InsertDesc(Tail(sorted), rec)
         ELSE <<rec>> \o sorted

RECURSIVE SortDesc(_)
\* sorted(records, key=score, reverse=True) / list.sort: stable
SortDesc(records) ==
    IF records = <<>> THEN <<>>
    ELSE InsertDesc(SortDesc(SubSeq(records, 1, Len(records) - 1)),
                    records[Len(records)])

\* Mutant of CheckCandidatesEqual: the last fields are not compared.
CheckCandidatesEqualInstructionsOnly(c1, c2) ==
    \A k \in 1..(IF Len(c1.program) < Len(c2.program)
                 THEN Len(c1.program) ELSE Len(c2.program)) :
        c1.program[k][1].instructions = c2.program[k][1].instructions

\* Lines 287-293, for predictors that all have extended_signature.
CheckCandidatesEqual(c1, c2) ==
    \A k \in 1..(IF Len(c1.program) < Len(c2.program)
                 THEN Len(c1.program) ELSE Len(c2.program)) :
        /\ c1.program[k][1].instructions = c2.program[k][1].instructions
        /\ c1.program[k][1].prefix = c2.program[k][1].prefix

\* _check_candidates_equal reads p.extended_signature of a predictor without it.
CheckRaises(c) == Len(c.program) > 0 /\ ~HasExtendedSignature(c.program[1])

RECURSIVE DropLoopAdjacentOnly(_, _, _, _, _)
\* Mutant of DropLoop: a candidate is compared with the last kept candidate
\* of the batch only.
DropLoopAdjacentOnly(candidates, i, final_candidates, last_batch, last_batch_score) ==
    IF i > Len(candidates) THEN <<final_candidates, FALSE>>
    ELSE
        LET c == candidates[i]
        IN  IF c.score = last_batch_score THEN
                IF c.program # <<>> /\ Len(c.program[1]) # 1 THEN <<final_candidates, TRUE>>
                ELSE IF \A q \in 1..Len(c.program) :
                            c.program[q][1] = last_batch[Len(last_batch)].program[q][1]
                THEN DropLoopAdjacentOnly(candidates, i + 1, final_candidates,
                                          last_batch, last_batch_score)
                ELSE DropLoopAdjacentOnly(candidates, i + 1, Append(final_candidates, c),
                                          Append(last_batch, c), last_batch_score)
            ELSE DropLoopAdjacentOnly(candidates, i + 1, Append(final_candidates, c),
                                      <<c>>, c.score)

RECURSIVE DropLoop(_, _, _, _, _)
\* Lines 299-312 from candidate i on: <<final_candidates, raised>>.
DropLoop(candidates, i, final_candidates, last_batch, last_batch_score) ==
    IF i > Len(candidates) THEN <<final_candidates, FALSE>>
    ELSE
        LET c == candidates[i]
        IN  IF c.score = last_batch_score THEN
                IF CheckRaises(c) THEN <<final_candidates, TRUE>>
                ELSE IF \E k \in 1..Len(last_batch) : CheckCandidatesEqual(c, last_batch[k])
                THEN DropLoop(candidates, i + 1, final_candidates, last_batch,
                              last_batch_score)
                ELSE DropLoop(candidates, i + 1, Append(final_candidates, c),
                              Append(last_batch, c), last_batch_score)
            ELSE DropLoop(candidates, i + 1, Append(final_candidates, c), <<c>>,
                          c.score)

\* _drop_duplicates
DropDuplicates(candidates) == DropLoop(candidates, 1, <<>>, <<>>, InitLastBatchScore)[1]

DropDuplicatesRaises(candidates) ==
    DropLoop(candidates, 1, <<>>, <<>>, InitLastBatchScore)[2]

\* Lines 490-505: every record of every predictor, sorted by score.
AllRecords(stores) == Flatten(stores)

SortedCandidates(stores) == SortDesc(AllRecords(stores))

(***************************************************************************)
(* compile, one action per statement group.                                *)
(***************************************************************************)
\* Mutant of Pool: the candidates generated last, whatever the program.
PoolLatestOnly(p) == latest_candidates[p]

\* Mutant of Pool: every candidate generated so far, whatever the program.
PoolAllCandidates(p) == all_candidates[p]

\* Mutant of Pool: with several predictors one pool serves all of them.
PoolSharedAcrossPredictors(p) ==
    IF cfg.np > 1 THEN Flatten(all_candidates) ELSE latest_candidates[p]

\* candidates_ of lines 363-365
Pool(p) == IF cfg.np > 1 THEN all_candidates[p] ELSE latest_candidates[p]

\* Line 368 for the candidate being worked on.
CurInstruction == Normalize(Pool(p_i)[c_i].proposed_instruction)
CurPrefix == Normalize(Pool(p_i)[c_i].proposed_prefix_for_output_field)

\* A request to the prompt model: the signature asked and the n passed.
Request(kind, n) == [kind |-> kind, n |-> n]

\* The seeding request of lines 340-344, made in the loop iteration of
\* predictor p; its completions are filed under id(predictor) at line 347.
SeedRequest(n, p, completions) ==
    [kind |-> "BasicGenerateInstruction", n |-> n,
     predictor |-> p, completions |-> completions]

\* Mutant of Raise: the exception is caught and compile carries on.
RaiseSwallowed(e) ==
    /\ pc' = "consolidate"
    /\ err' = e

Raise(e) ==
    /\ pc' = "raised"
    /\ err' = e

\* exemplars_to_df reads exemplars[0] to learn the columns.
ExemplarsToDfRaises(exemplars) == Len(exemplars) = 0

\* Line 316: the history is built on the frames of devset and evalset.
Construct ==
    /\ pc = "construct"
    /\ IF ExemplarsToDfRaises(cfg.evalset)
       THEN Raise("IndexError")
       ELSE /\ pc' = "seed"
            /\ UNCHANGED err
    /\ UNCHANGED <<chosen, chat, render, cfg, student, module_clone, all_candidates, latest_candidates,
                   evaluated_candidates, d, p_i, c_i, score, correct, current, used,
                   unused, next_id, total_calls, latest_scores, result, eval_log,
                   proposal, prompt_log, reconciliation>>

\* Mutant of SeedPool: the predictor's own instruction is not appended.
SeedPoolWithoutBaseline(gen, predictor) == gen

\* Lines 345-346: the predictor's own instruction and prefix come last.
SeedPool(gen, predictor) ==
    Append(gen, Cand(BasicInstruction(predictor), BasicPrefix(predictor)))

\* Lines 331-355, one predictor per step: B-1 generated candidates and then
\* the predictor's own instruction and prefix.
Seed(replies) ==
    /\ pc = "seed"
    /\ \E gen \in SeqsOfLen(replies, cfg.breadth - 1) :
        LET pool == SeedPool(gen, student[p_i])
        IN  /\ all_candidates' = Append(all_candidates, pool)
            /\ evaluated_candidates' = Append(evaluated_candidates, <<>>)
            /\ prompt_log' = Append(prompt_log,
                                    SeedRequest(cfg.breadth - 1, p_i, gen))
            /\ IF p_i = cfg.np
               THEN /\ latest_candidates' = all_candidates'
                    /\ p_i' = 1
                    /\ pc' = "apply"
               ELSE /\ p_i' = p_i + 1
                    /\ UNCHANGED <<latest_candidates, pc>>
    /\ UNCHANGED <<chosen, chat, render, cfg, student, err, module_clone, d, c_i, score, correct, current,
                   used, unused, next_id, total_calls, latest_scores, result,
                   eval_log, proposal, reconciliation>>

\* Mutant of Apply: the observations are asked for before any evaluation.
ApplyThenPropose ==
    /\ pc = "apply"
    /\ module_clone' = [module_clone EXCEPT
                           ![p_i] = SetSignature(@, CurInstruction, CurPrefix)]
    /\ pc' = "propose"
    /\ UNCHANGED <<chosen, chat, render, cfg, student, err, all_candidates, latest_candidates,
                   evaluated_candidates, d, p_i, c_i, score, correct, current, used,
                   unused, next_id, total_calls, latest_scores, result,
                   eval_log, proposal, prompt_log,
                   reconciliation>>

\* Mutant of SnapshotsAfterWrite: the records hold module_clone itself, not
\* a copy, so every stored program is the program just written.
SnapshotsShareClone(stores, clone) ==
    [p \in 1..Len(stores) |->
        [j \in 1..Len(stores[p]) |-> [stores[p][j] EXCEPT !.program = clone]]]

\* "program": module_clone.deepcopy() (line 412): a stored snapshot shares
\* nothing with module_clone, so a later write through p_new leaves it alone.
SnapshotsAfterWrite(stores, clone) == stores

\* Mutant of StudentAfterWrite: module and module_clone are the student
\* itself, so a write to p_new is a write to the student.
StudentSharesClone(stu, clone) == clone

\* module = student.deepcopy() (line 318) and module_clone = module.deepcopy()
\* (line 355): the program written through p_new shares nothing with the
\* student, which is left as it was.
StudentAfterWrite(stu, clone) == stu

\* Lines 367-377.
Apply ==
    /\ pc = "apply"
    /\ module_clone' = [module_clone EXCEPT
                           ![p_i] = SetSignature(@, CurInstruction, CurPrefix)]
    /\ student' = StudentAfterWrite(student, module_clone')
    /\ evaluated_candidates' =
           SnapshotsAfterWrite(evaluated_candidates, module_clone')
    /\ pc' = "evaluate"
    /\ UNCHANGED <<chosen, chat, render, cfg, err, all_candidates, latest_candidates,
                   d, p_i, c_i, score, correct, current, used,
                   unused, next_id, total_calls, latest_scores, result,
                   eval_log, proposal, prompt_log,
                   reconciliation>>

\* Lines 391-394: the evaluator answers with the rows it found correct.
Evaluate(outcomes) ==
    /\ pc = "evaluate"
    /\ \E ok \in outcomes :
        /\ correct' = ok
        /\ score' = Score(ok)
        /\ eval_log' = Append(eval_log, [p |-> p_i, c |-> c_i, d |-> d,
                                         program |-> module_clone,
                                         score |-> Score(ok)])
    /\ pc' = "propose"
    /\ UNCHANGED <<chosen, chat, render, cfg, student, err, module_clone, all_candidates, latest_candidates,
                   evaluated_candidates, d, p_i, c_i, current, used, unused, next_id,
                   total_calls, latest_scores, result, proposal, prompt_log,
                   reconciliation>>

\* Mutant of ExtendUsed: `used` is rebound to the previous `current`.
ExtendUsedReplaces(used_now, current_now) == current_now

\* Line 265: the observations of the previous call join `used`.
ExtendUsed(used_now, current_now) == used_now \o current_now

\* Line 397: propose_metric_observations (lines 241-267).
Propose(replies) ==
    /\ pc = "propose"
    /\ \E fields \in replies :
        LET failed == RowsWhere(correct, FALSE, 0)
        IN  /\ proposal' = fields
            /\ IF ProposeRaises(fields, failed)
               THEN /\ Raise("ValueError")
                    /\ UNCHANGED <<current, used, next_id>>
               ELSE /\ used' = ExtendUsed(used, current)
                    /\ current' = NewObservations(fields, failed, next_id)
                    /\ next_id' = next_id + Len(fields)
                    /\ pc' = "consolidate"
                    /\ UNCHANGED err
    /\ prompt_log' = Append(prompt_log, Request("ProposeMetricObservation",
                                                NumProposals))
    /\ UNCHANGED <<chosen, chat, render, cfg, student, module_clone, all_candidates, latest_candidates,
                   evaluated_candidates, d, p_i, c_i, score, correct, unused,
                   total_calls, latest_scores, result, eval_log,
                   reconciliation>>

\* Line 398: update_metric_observations (lines 268-284).
Consolidate(replies) ==
    /\ pc = "consolidate"
    /\ IF ConsolidationDue(used)
       THEN \E fields \in replies :
                /\ unused' = unused \o used
                /\ used' = ReconcileAll(fields, 1, used, next_id)
                /\ next_id' = next_id + Len(fields)
                /\ reconciliation' = fields
                /\ prompt_log' = Append(prompt_log,
                                        Request("ReconcileMetric_Observations",
                                                NumReconciled))
       ELSE UNCHANGED <<used, unused, next_id, prompt_log, reconciliation>>
    /\ pc' = "record"
    /\ UNCHANGED <<chosen, chat, render, cfg, student, err, module_clone, all_candidates, latest_candidates,
                   evaluated_candidates, d, p_i, c_i, score, correct, current,
                   total_calls, latest_scores, result, eval_log, proposal>>

\* Lines 400-419, and the step to the next candidate.
RecordStep ==
    /\ pc = "record"
    /\ total_calls' = total_calls + 1
    /\ evaluated_candidates' =
           [evaluated_candidates EXCEPT
               ![p_i] = RecordCandidate(@, Record(score, module_clone, CurInstruction,
                                                  CurPrefix, d))]
    /\ latest_scores' = IF Len(Pool(p_i)) - cfg.breadth <= c_i - 1
                        THEN Append(latest_scores, score)
                        ELSE latest_scores
    /\ IF c_i < Len(Pool(p_i))
       THEN /\ c_i' = c_i + 1
            /\ pc' = "apply"
       ELSE /\ pc' = "select"
            /\ UNCHANGED c_i
    /\ UNCHANGED <<chosen, chat, render, cfg, student, err, module_clone, all_candidates, latest_candidates,
                   d, p_i, score, correct, current, used, unused, next_id, result,
                   eval_log, proposal, prompt_log,
                   reconciliation>>

\* Mutant of LastRound: the loop is left one round late.
LastRoundOffByOne == d = cfg.depth

\* Lines 449-450.
LastRound == d = cfg.depth - 1

\* Lines 428-450: the predictor is fixed to its best record, then the next
\* predictor, the generation of new candidates or the end of the rounds.
Select ==
    /\ pc = "select"
    /\ LET best_candidate == BestCandidate(evaluated_candidates[p_i])
       IN  /\ module_clone' =
                  [module_clone EXCEPT
                      ![p_i] = SetSignature(@, best_candidate.instruction,
                                            best_candidate.prefix)]
           /\ chosen' = Append(chosen, [p |-> p_i, d |-> d,
                                        score |-> best_candidate.score])
    /\ student' = StudentAfterWrite(student, module_clone')
    /\ IF p_i < cfg.np
       THEN /\ p_i' = p_i + 1
            /\ c_i' = 1
            /\ pc' = "apply"
       ELSE /\ p_i' = 1
            /\ c_i' = 1
            /\ pc' = IF LastRound THEN "finish" ELSE "generate"
    /\ evaluated_candidates' =
           SnapshotsAfterWrite(evaluated_candidates, module_clone')
    /\ UNCHANGED <<chat, render, cfg, err, all_candidates, latest_candidates,
                   d, score, correct, current, used, unused,
                   next_id, total_calls, latest_scores, result,
                   eval_log, proposal, prompt_log,
                   reconciliation>>

\* What lines 470-472 render of a record.
Attempt(rec) == [instruction |-> rec.instruction, prefix |-> rec.prefix,
                 score |-> rec.score]

\* Mutant of Attempts: the records are listed from the best one on.
AttemptsBestFirst(store, breadth) ==
    LET shortest_len == IF Len(store) < breadth THEN Len(store) ELSE breadth
    IN  [k \in 1..shortest_len |-> Attempt(SortDesc(store)[k])]

\* Lines 455-472: the shortest_len best records, listed from index
\* shortest_len - 1 of the descending order down to index 0.
Attempts(store, breadth) ==
    LET shortest_len == IF Len(store) < breadth THEN Len(store) ELSE breadth
        best_predictors == SortDesc(store)
    IN  [k \in 1..shortest_len |-> Attempt(best_predictors[shortest_len - k + 1])]

\* The request of lines 476-479 with its attempted_instructions.
\* predictor and completions are history fields: the predictor in whose loop
\* iteration the request is made and the completions the model returned,
\* which line 483 files under id(p_base).
GenerationRequest(n, attempts, p, completions) ==
    [kind |-> "GenerateInstructionGivenAttempts", n |-> n, attempts |-> attempts,
     predictor |-> p, completions |-> completions]

RECURSIVE StrRows(_, _, _)
\* The while loop of MetricObservation.__str__ (lines 187-194), entered with
\* at least one row: nrows_to_keep.
StrRows(rows, nrows_to_keep, budget_remaining) ==
    IF TokenCount(rows[nrows_to_keep + 1]) > budget_remaining THEN nrows_to_keep
    ELSE IF nrows_to_keep + 1 >= Len(rows) - 1 THEN nrows_to_keep + 1
    ELSE StrRows(rows, nrows_to_keep + 1,
                 budget_remaining - TokenCount(rows[nrows_to_keep + 1]))

\* __str__ reads failure_exemplars.iloc[0] before any test of the length.
StrRaises(obs) == Len(obs.failure_exemplars) = 0

\* The rows __str__ shows.
StrShown(obs) ==
    Prefix(obs.failure_exemplars, StrRows(obs.failure_exemplars, 0, example_token_budget))

\* Lines 195-197: what __str__ returns of the exemplars, or the error of
\* line 188.
StrRendering(obs) ==
    IF StrRaises(obs) THEN [kind |-> "IndexError"]
    ELSE IF StrRows(obs.failure_exemplars, 0, example_token_budget) = 0
         THEN NoneShownText(Len(obs.failure_exemplars))
         ELSE RowsText(StrShown(obs))

\* Lines 453-488, one predictor per step: B new candidates join the
\* predictor's pools; after the last predictor the next round starts.
Generate(replies) ==
    /\ pc = "generate"
    /\ IF \E k \in 1..Len(current) : StrRaises(current[k])
       THEN /\ Raise("IndexError")
            /\ UNCHANGED <<all_candidates, latest_candidates, d, p_i, latest_scores,
                           prompt_log>>
       ELSE /\ \E gen \in SeqsOfLen(replies, cfg.breadth) :
                /\ prompt_log' =
                       Append(prompt_log,
                              GenerationRequest(cfg.breadth,
                                                Attempts(evaluated_candidates[p_i],
                                                         cfg.breadth),
                                                p_i, gen))
                /\ latest_candidates' = [latest_candidates EXCEPT ![p_i] = gen]
                /\ all_candidates' = [all_candidates EXCEPT ![p_i] = @ \o gen]
            /\ IF p_i < cfg.np
               THEN /\ p_i' = p_i + 1
                    /\ UNCHANGED <<d, latest_scores, pc>>
               ELSE /\ p_i' = 1
                    /\ d' = d + 1
                    /\ latest_scores' = <<>>
                    /\ pc' = "apply"
            /\ UNCHANGED err
    /\ UNCHANGED <<chosen, chat, render, cfg, student, module_clone, evaluated_candidates, c_i, score,
                   correct, current, used, unused, next_id, total_calls, result,
                   eval_log, proposal, reconciliation>>

\* Lines 490-516.
Finish ==
    /\ pc = "finish"
    /\ LET candidates == SortedCandidates(evaluated_candidates)
       IN  IF DropDuplicatesRaises(candidates)
           THEN /\ Raise("AttributeError")
                /\ UNCHANGED result
           ELSE /\ result' = [program |-> DropDuplicates(candidates)[1].program,
                              candidate_programs |-> DropDuplicates(candidates),
                              total_calls |-> total_calls]
                /\ pc' = "done"
                /\ UNCHANGED err
    /\ UNCHANGED <<chosen, chat, render, cfg, student, module_clone, all_candidates, latest_candidates,
                   evaluated_candidates, d, p_i, c_i, score, correct, current, used,
                   unused, next_id, total_calls, latest_scores,
                   eval_log, proposal, prompt_log,
                   reconciliation>>

(***************************************************************************)
(* The search loop under every configuration within the bounds.  The       *)
(* prompt model proposes candidates out of RawCandidates; its proposed     *)
(* observations cite row 0, or one of them cites nothing.                  *)
(***************************************************************************)
IdxZero == <<"[", "0", "]">>
IdxParents == <<"[", "0", ",", SP, "1", "]">>
NoDigits == <<"n", "o", "n", "e">>

MainProposeReplies ==
    {[i \in 1..NumProposals |-> IdxZero],
     [i \in 1..NumProposals |-> IF i = 2 THEN NoDigits ELSE IdxZero]}

MainConsolidateReplies == {[i \in 1..NumReconciled |-> IdxParents]}

Init == InitWith(Configs)

Next ==
    \/ Construct
    \/ Seed(RawCandidates)
    \/ Apply
    \/ Evaluate(SUBSET DevRows)
    \/ Propose(MainProposeReplies)
    \/ Consolidate(MainConsolidateReplies)
    \/ RecordStep
    \/ Select
    \/ Generate(RawCandidates)
    \/ Finish

Spec == Init /\ [][Next]_vars

\* The same search when the prompt model always answers a request for
\* observations with well-formed index lists.
WellFormedProposeReplies == {[i \in 1..NumProposals |-> IdxZero]}

NextWellFormed ==
    \/ Construct
    \/ Seed(RawCandidates)
    \/ Apply
    \/ Evaluate(SUBSET DevRows)
    \/ Propose(WellFormedProposeReplies)
    \/ Consolidate(MainConsolidateReplies)
    \/ RecordStep
    \/ Select
    \/ Generate(RawCandidates)
    \/ Finish

SpecWellFormed == Init /\ [][NextWellFormed]_vars

(***************************************************************************)
(* The feedback memory over a search long enough for consolidation: one    *)
(* predictor, two rounds of HistBreadth candidates.  The prompt model      *)
(* always proposes the same candidate; what varies is what it cites.       *)
(***************************************************************************)
IdxOne == <<"[", "1", "]">>
IdxZeroAndBeyond == <<"[", "0", ",", SP, "7", "]">>
IdxLastParent == <<"[", "1", "7", "]">>
IdxFirstChild == <<"[", "1", "8", "]">>
IdxFarBeyond == <<"[", "4", "0", "]">>
IdxTwoThree == <<"[", "2", ",", SP, "3", "]">>

HistConfigs ==
    {[np |-> 1, breadth |-> HistBreadth, depth |-> 2, dual |-> FALSE,
      evalset |-> OneRowEvalset]}

HistCandidates == {Cand(IA, PQ)}

HistOutcomes == {{}, DevRows}

HistProposeReplies ==
    {[i \in 1..NumProposals |-> IdxZero],
     [i \in 1..NumProposals |->
         IF i = 1 THEN IdxZero ELSE IF i = 2 THEN IdxOne ELSE IdxZeroAndBeyond]}

HistConsolidateReplies ==
    {[i \in 1..NumReconciled |-> IdxParents],
     [i \in 1..NumReconciled |->
         IF i = 1 THEN IdxParents
         ELSE IF i = 2 THEN IdxLastParent
         ELSE IF i = 3 THEN IdxFirstChild
         ELSE IF i = 4 THEN IdxFarBeyond
         ELSE IF i = 5 THEN NoDigits
         ELSE IF i = 6 THEN IdxTwoThree
         ELSE IdxZero]}

InitHistory == InitWith(HistConfigs)

NextHistory ==
    \/ Construct
    \/ Seed(HistCandidates)
    \/ Apply
    \/ Evaluate(HistOutcomes)
    \/ Propose(HistProposeReplies)
    \/ Consolidate(HistConsolidateReplies)
    \/ RecordStep
    \/ Select
    \/ Generate(HistCandidates)
    \/ Finish

SpecHistory == InitHistory /\ [][NextHistory]_vars

(***************************************************************************)
(* The search of one predictor when the prompt model always cites rows by  *)
(* number, some of the numbers, or all of them, beyond the rows of the     *)
(* development set, and always proposes the same candidate.                *)
(***************************************************************************)
CitationReplies ==
    {[i \in 1..NumProposals |-> IdxZero],
     [i \in 1..NumProposals |->
         IF i = 1 THEN IdxZero ELSE IF i = 2 THEN IdxOne ELSE IdxZeroAndBeyond],
     [i \in 1..NumProposals |-> IdxFarBeyond]}

CitationConfigs == {c \in Configs : c.np = 1}

InitCitations == InitWith(CitationConfigs)

NextCitations ==
    \/ Construct
    \/ Seed(HistCandidates)
    \/ Apply
    \/ Evaluate(SUBSET DevRows)
    \/ Propose(CitationReplies)
    \/ Consolidate(MainConsolidateReplies)
    \/ RecordStep
    \/ Select
    \/ Generate(HistCandidates)
    \/ Finish

SpecCitations == InitCitations /\ [][NextCitations]_vars

(***************************************************************************)
(* The search of one predictor under evaluation sets of every size, the    *)
(* empty one included.                                                     *)
(***************************************************************************)
EvalSets == {<<>>, OneRowEvalset, <<0, 1>>}

EvalsetConfigs ==
    {[c EXCEPT !.evalset = e] : c \in CitationConfigs, e \in EvalSets}

InitEvalset == InitWith(EvalsetConfigs)

NextEvalset ==
    \/ Construct
    \/ Seed(HistCandidates)
    \/ Apply
    \/ Evaluate(SUBSET DevRows)
    \/ Propose(WellFormedProposeReplies)
    \/ Consolidate(MainConsolidateReplies)
    \/ RecordStep
    \/ Select
    \/ Generate(HistCandidates)
    \/ Finish

SpecEvalset == InitEvalset /\ [][NextEvalset]_vars

(***************************************************************************)
(* Two rounds of a program of one or of two predictors, and three rounds   *)
(* of one predictor; with two predictors each round evaluates every        *)
(* candidate accumulated so far.  The evaluator finds row 1 correct or no  *)
(* row, so that a failing row is always shown.                             *)
(***************************************************************************)
RoundsConfigs ==
    {[np |-> n, breadth |-> 2, depth |-> 2, dual |-> FALSE,
      evalset |-> OneRowEvalset] : n \in {1, 2}}
    \cup {[np |-> 1, breadth |-> 2, depth |-> 3, dual |-> FALSE,
           evalset |-> OneRowEvalset]}

RoundsSeedCandidates == {Cand(IB, PQ)}

RoundsOutcomes == {{}, {1}}

InitRounds == InitWith(RoundsConfigs)

NextRounds ==
    \/ Construct
    \/ Seed(RoundsSeedCandidates)
    \/ Apply
    \/ Evaluate(RoundsOutcomes)
    \/ Propose(WellFormedProposeReplies)
    \/ Consolidate(MainConsolidateReplies)
    \/ RecordStep
    \/ Select
    \/ Generate(HistCandidates)
    \/ Finish

SpecRounds == InitRounds /\ [][NextRounds]_vars

(***************************************************************************)
(* Two predictors whose prompt-model completions are told apart: what the  *)
(* model answers in the loop iteration of predictor 1 is never what it     *)
(* answers in that of predictor 2, and neither is a baseline.              *)
(***************************************************************************)
PoolsConfigs ==
    {[np |-> 2, breadth |-> 2, depth |-> dd, dual |-> FALSE,
      evalset |-> OneRowEvalset] : dd \in {1, 2}}

SeedRepliesFor(p) == IF p = 1 THEN {Cand(IQA, PQ)} ELSE {Cand(IB, PP)}

GenerateRepliesFor(p) == IF p = 1 THEN {Cand(IB, PQ)} ELSE {Cand(IC, PQ)}

InitPools == InitWith(PoolsConfigs)

NextPools ==
    \/ Construct
    \/ Seed(SeedRepliesFor(p_i))
    \/ Apply
    \/ Evaluate(RoundsOutcomes)
    \/ Propose(WellFormedProposeReplies)
    \/ Consolidate(MainConsolidateReplies)
    \/ RecordStep
    \/ Select
    \/ Generate(GenerateRepliesFor(p_i))
    \/ Finish

SpecPools == InitPools /\ [][NextPools]_vars

(***************************************************************************)
(* The two renderers on their own: a table of up to MaxRenderLen rows is   *)
(* rendered under a budget by budgeted_df_stringify, then as the exemplars *)
(* of an observation by __str__.                                           *)
(***************************************************************************)
RenderRowIds == {0, 1, 2}

RenderBudgets == {0, 39, 100, 300, 2000, 2400}

RenderTables == UNION {SeqsOfLen(RenderRowIds, n) : n \in 0..MaxRenderLen}

compile_vars == <<cfg, student, pc, err, module_clone, all_candidates,
                  latest_candidates, evaluated_candidates, d, p_i, c_i, score,
                  correct, current, used, unused, next_id, total_calls,
                  latest_scores, result, eval_log, proposal, prompt_log,
                  reconciliation, chosen>>

InitRender ==
    /\ InitCompile(HistConfigs)
    /\ chat = NoChat
    /\ render \in [stage : {"input"}, df : RenderTables, budget : RenderBudgets]

RenderTable ==
    /\ render.stage = "input"
    /\ render' = [stage |-> "rendered", df |-> render.df, budget |-> render.budget,
                  text |-> Rendering(render.df, render.budget)]
    /\ UNCHANGED <<compile_vars, chat>>

RenderObservation ==
    /\ render.stage = "rendered"
    /\ render' = [stage |-> "printed", df |-> render.df, budget |-> render.budget,
                  text |-> render.text,
                  str |-> StrRendering(Observation(0, render.df))]
    /\ UNCHANGED <<compile_vars, chat>>

NextRender ==
    \/ RenderTable
    \/ RenderObservation

SpecRender == InitRender /\ [][NextRender]_vars

(***************************************************************************)
(* TogetherApi._send_chat_request_internal on its own: one chat request,   *)
(* the attempts it makes and what the service answers to each.  The delay  *)
(* of time.sleep(5) before a retry is not a state of its own.              *)
(***************************************************************************)
\* The depth at which Python refuses a further recursive call.
RecursionLimit == 3

OtherStatus == 503

ChatStatuses == {200, 429, 500, 400, OtherStatus}

\* What response.json() makes of the body: a JSON object with
\* output.choices[0].text, a JSON object without "output", or no JSON at all.
ChatBodies == {"completion", "error", "text"}

ChatStart ==
    [stage |-> "post", depth |-> 1, status |-> 0, body |-> "none",
     history |-> <<>>, result |-> 0, err |-> "none"]

InitChat ==
    /\ InitCompile(HistConfigs)
    /\ render = NoRender
    /\ chat = ChatStart

\* Lines 78-79: the request is posted and the service answers the attempt.
ChatPost(statuses, bodies) ==
    /\ chat.stage = "post"
    /\ \E s \in statuses, b \in bodies :
           chat' = [chat EXCEPT !.stage = "answered", !.status = s, !.body = b]
    /\ UNCHANGED <<compile_vars, render>>

\* Lines 81-89: the history entry is built from
\* response.json()["output"]["choices"][0]["text"] before the status is
\* looked at.
ChatRecord ==
    /\ chat.stage = "answered"
    /\ chat' = IF chat.body = "completion"
               THEN [chat EXCEPT !.stage = "dispatch",
                                 !.history = Append(@, [attempt |-> chat.depth,
                                                        status |-> chat.status])]
               ELSE [chat EXCEPT !.stage = "raised",
                                 !.err = IF chat.body = "text"
                                         THEN "JSONDecodeError" ELSE "KeyError"]
    /\ UNCHANGED <<compile_vars, render>>

\* Lines 91-108: status 200 returns the attempt's output; every other status
\* sleeps and calls the function again from within itself.
ChatDispatch ==
    /\ chat.stage = "dispatch"
    /\ chat' = IF chat.status = 200
               THEN [chat EXCEPT !.stage = "returned", !.result = chat.depth]
               ELSE IF chat.depth < RecursionLimit
                    THEN [chat EXCEPT !.stage = "post", !.depth = @ + 1]
                    ELSE [chat EXCEPT !.stage = "raised", !.err = "RecursionError"]
    /\ UNCHANGED <<compile_vars, render>>

NextChat ==
    \/ ChatPost(ChatStatuses, ChatBodies)
    \/ ChatRecord
    \/ ChatDispatch

SpecChat == InitChat /\ [][NextChat]_vars

\* The function runs on while it has a step to take, and the service
\* eventually answers an attempt with status 200 and a completion.
SpecChatFair ==
    /\ InitChat
    /\ [][NextChat]_vars
    /\ WF_vars(NextChat)
    /\ SF_vars(ChatPost({200}, {"completion"}))

(***************************************************************************)
(* Notions the properties share.                                           *)
(***************************************************************************)
Preds == 1..cfg.np

Done == pc = "done"

\* The instruction and prefix predictor k of a program carries.
Carried(program, k) == Sig(program[k][1].instructions, program[k][1].prefix)

\* Two programs carry the same instruction and prefix at every predictor.
SamePrograms(a, b) ==
    /\ Len(a) = Len(b)
    /\ \A k \in 1..Len(a) : Carried(a, k) = Carried(b, k)

RecordedScores ==
    UNION {{evaluated_candidates[p][k].score : k \in 1..Len(evaluated_candidates[p])} :
               p \in Preds}

MaxRecordedScore == CHOOSE m \in RecordedScores : \A x \in RecordedScores : x <= m

\* C1: when compile has returned, the returned program is the snapshot of a
\* record of some predictor's store, and no record of any predictor's store
\* has a strictly higher score than that record.
C1_ReturnsMaxScoreSnapshot ==
    Done =>
        \E p \in Preds : \E k \in 1..Len(evaluated_candidates[p]) :
            /\ evaluated_candidates[p][k].program = result.program
            /\ \A q \in Preds : \A j \in 1..Len(evaluated_candidates[q]) :
                   evaluated_candidates[q][j].score <= evaluated_candidates[p][k].score

\* compile has returned from a two-predictor run whose stores hold records of
\* different scores, the lower one in the first predictor's first place.
C1_Witness ==
    /\ Done
    /\ cfg.np = 2
    /\ evaluated_candidates[1][1].score < MaxRecordedScore
    /\ \E j \in 1..Len(evaluated_candidates[2]) :
           evaluated_candidates[2][j].score = MaxRecordedScore

\* C2: with one predictor and depth 1, once a generated candidate has been
\* evaluated at 100%, compile does not raise, and when it has returned the
\* program carries that candidate's instruction and prefix and total_calls
\* is the breadth.
C2_PerfectCandidateIsReturned ==
    (/\ cfg.np = 1
     /\ cfg.depth = 1
     /\ \E k \in 1..Len(eval_log) : eval_log[k].score = 100 /\ eval_log[k].c < cfg.breadth)
    => /\ pc # "raised"
       /\ Done =>
            /\ \E k \in 1..Len(eval_log) :
                   /\ eval_log[k].score = 100
                   /\ Carried(result.program, 1) = Carried(eval_log[k].program, 1)
            /\ result.total_calls = cfg.breadth

\* Every record of every store: predictor order, then insertion order.
RecordsInOrder == Flatten(evaluated_candidates)

FirstMaxRecord ==
    LET recs == RecordsInOrder
        k == CHOOSE k \in 1..Len(recs) :
                 /\ \A j \in 1..Len(recs) : recs[j].score <= recs[k].score
                 /\ \A j \in 1..(k - 1) : recs[j].score < recs[k].score
    IN  recs[k]

AllEvaluationsTie == \A k \in 1..Len(eval_log) : eval_log[k].score = eval_log[1].score

\* C3: when compile has returned, the returned program is the snapshot of the
\* first record, in predictor order and then insertion order, among the
\* records with the greatest score; when every evaluation gave the same
\* score it is the program of the first evaluation.
C3_TieGoesToFirstRecorded ==
    Done =>
        /\ result.program = FirstMaxRecord.program
        /\ AllEvaluationsTie => result.program = eval_log[1].program

\* compile has returned from a two-predictor run whose four evaluations all
\* gave the same score.
C3_Witness ==
    /\ Done
    /\ cfg.np = 2
    /\ Len(eval_log) >= 4
    /\ AllEvaluationsTie
    /\ \E j \in 1..Len(RecordsInOrder) : RecordsInOrder[j].program # result.program

\* The evaluations recorded so far for predictor p under identity sig.
RecordedEvals(p, sig) ==
    {k \in 1..total_calls : eval_log[k].p = p /\ Carried(eval_log[k].program, p) = sig}

RecordSig(rec) == Sig(rec.instruction, rec.prefix)

StoreMatchesEvaluations ==
    \A p \in 1..Len(evaluated_candidates) :
        LET store == evaluated_candidates[p]
        IN  /\ \A k \in 1..total_calls :
                   eval_log[k].p = p =>
                       Cardinality({j \in 1..Len(store) :
                           RecordSig(store[j]) = Carried(eval_log[k].program, p)}) = 1
            /\ \A j \in 1..Len(store) :
                   /\ RecordedEvals(p, RecordSig(store[j])) # {}
                   /\ \A k \in RecordedEvals(p, RecordSig(store[j])) :
                          eval_log[k].score <= store[j].score
                   /\ \E k \in RecordedEvals(p, RecordSig(store[j])) :
                          eval_log[k].score = store[j].score

NonImprovingRecordKeepsStore ==
    (/\ pc = "record"
     /\ \E j \in 1..Len(evaluated_candidates[p_i]) :
            /\ RecordSig(evaluated_candidates[p_i][j]) = Sig(CurInstruction, CurPrefix)
            /\ score <= evaluated_candidates[p_i][j].score)
    => evaluated_candidates' = evaluated_candidates

\* C4: at every point each store holds exactly one record per identity
\* evaluated and recorded for its predictor, with the greatest score those
\* evaluations gave; and a record step whose score does not exceed the stored
\* one leaves every stored record as it was.
C4_StoreKeepsBestPerIdentity ==
    /\ []StoreMatchesEvaluations
    /\ [][NonImprovingRecordKeepsStore]_vars

\* One identity has been recorded twice, the second time with a lower score
\* and in a later round.
C4_Witness ==
    \E k1 \in 1..total_calls : \E k2 \in (k1 + 1)..total_calls :
        /\ eval_log[k1].p = eval_log[k2].p
        /\ Carried(eval_log[k1].program, eval_log[k1].p)
               = Carried(eval_log[k2].program, eval_log[k2].p)
        /\ eval_log[k2].score < eval_log[k1].score
        /\ eval_log[k1].d < eval_log[k2].d

\* The record best() names in a store: greatest score, first inserted.
IsBest(store, j) ==
    /\ \A i \in 1..Len(store) : store[i].score <= store[j].score
    /\ \A i \in 1..(j - 1) : store[i].score < store[j].score

\* C5: the step that ends a predictor's pool sets every slot of the working
\* clone's predictor to the instruction and prefix of the record with the
\* greatest score in that predictor's store, the first inserted among ties.
C5_BestIsFirstMaxAndFixed ==
    [][pc = "select" =>
          \E j \in 1..Len(evaluated_candidates[p_i]) :
              /\ IsBest(evaluated_candidates[p_i], j)
              /\ \A slot \in 1..Len(module_clone'[p_i]) :
                     module_clone'[p_i][slot] = RecordSig(evaluated_candidates[p_i][j])]_vars

\* The last predictor's pool is exhausted, two records of its store tie at
\* the greatest score and the clone carries the first of them.
C5_Witness ==
    /\ pc \in {"generate", "finish"}
    /\ p_i = 1
    /\ LET store == evaluated_candidates[cfg.np]
       IN  \E j \in 1..Len(store) : \E i \in (j + 1)..Len(store) :
               /\ IsBest(store, j)
               /\ store[i].score = store[j].score
               /\ Carried(module_clone, cfg.np) = RecordSig(store[j])

Baseline(p) == Sig(Normalize(BasicInstruction(student[p])),
                   Normalize(BasicPrefix(student[p])))

\* C6: once seeded, each predictor's pool begins with B candidates of which
\* the B-th is the predictor's original instruction and prefix; after round 0
\* the baseline has been evaluated and recorded in round 0; and the score of
\* the record compile returns is not below the baseline's recorded score.
C6_BaselineSeededAndNeverBeaten ==
    /\ pc \notin {"construct", "seed"} =>
           \A p \in Preds :
               /\ Len(all_candidates[p]) >= cfg.breadth
               /\ d = 0 /\ pc # "generate" => Len(all_candidates[p]) = cfg.breadth
               /\ all_candidates[p][cfg.breadth]
                      = Cand(BasicInstruction(student[p]), BasicPrefix(student[p]))
    /\ (d >= 1 \/ pc \in {"generate", "finish", "done"}) =>
           \A p \in Preds :
               /\ \E k \in 1..total_calls :
                      /\ eval_log[k].p = p
                      /\ eval_log[k].d = 0
                      /\ Carried(eval_log[k].program, p) = Baseline(p)
               /\ \E j \in 1..Len(evaluated_candidates[p]) :
                      RecordSig(evaluated_candidates[p][j]) = Baseline(p)
    /\ Done =>
           /\ result.program = result.candidate_programs[1].program
           /\ \A p \in Preds : \A j \in 1..Len(evaluated_candidates[p]) :
                  RecordSig(evaluated_candidates[p][j]) = Baseline(p)
                      => evaluated_candidates[p][j].score
                             <= result.candidate_programs[1].score

\* compile has returned a program that scored higher than the recorded
\* baseline of the predictor.
C6_Witness ==
    /\ Done
    /\ \E j \in 1..Len(evaluated_candidates[1]) :
           /\ RecordSig(evaluated_candidates[1][j]) = Baseline(1)
           /\ evaluated_candidates[1][j].score < result.candidate_programs[1].score
           /\ Carried(result.program, 1) # Baseline(1)

\* The list handed to _drop_duplicates and the list compile attaches.
DedupInput == SortedCandidates(evaluated_candidates)

Survivors == result.candidate_programs

Twins(a, b) == a.score = b.score /\ SamePrograms(a.program, b.program)

\* C7: in the final candidate list no two records have the same score and
\* the same instruction and output field at every predictor; every record
\* handed to the deduplication has exactly one such twin in the final list.
C7_OneSurvivorPerGroup ==
    Done =>
        /\ \A i \in 1..Len(Survivors) : \A j \in (i + 1)..Len(Survivors) :
               ~Twins(Survivors[i], Survivors[j])
        /\ \A n \in 1..Len(DedupInput) :
               Cardinality({i \in 1..Len(Survivors) :
                                Twins(Survivors[i], DedupInput[n])}) = 1

\* compile has returned and the deduplication dropped a record whose twin was
\* not the record right before it.
C7_Witness ==
    /\ Done
    /\ \E n \in 3..Len(DedupInput) : \E m \in 1..(n - 2) :
           /\ Twins(DedupInput[m], DedupInput[n])
           /\ ~Twins(DedupInput[n - 1], DedupInput[n])
           /\ DedupInput[n - 1].score = DedupInput[n].score

\* The places of the input whose record has no twin before it.
FirstOfGroup ==
    {n \in 1..Len(DedupInput) : \A m \in 1..(n - 1) : ~Twins(DedupInput[m], DedupInput[n])}

NthFirstOfGroup(n) ==
    CHOOSE i \in FirstOfGroup : Cardinality({j \in FirstOfGroup : j <= i}) = n

\* C8: the final candidate list is the input of the deduplication, in its
\* order, without exactly the records that have a twin (same score, same
\* instruction and output field at every predictor) earlier in the input.
C8_OnlyTwinsDroppedOrderKept ==
    Done =>
        /\ Len(Survivors) = Cardinality(FirstOfGroup)
        /\ \A n \in 1..Len(Survivors) : Survivors[n] = DedupInput[NthFirstOfGroup(n)]
        /\ \A n \in 1..(Len(Survivors) - 1) : Survivors[n].score >= Survivors[n + 1].score

\* compile has returned a list in which two records of equal score differ in
\* the prefix alone, two differ in score, and from which a twin was dropped.
C8_Witness ==
    /\ Done
    /\ Len(Survivors) < Len(DedupInput)
    /\ \E i \in 1..Len(Survivors) : \E j \in (i + 1)..Len(Survivors) :
           /\ Survivors[i].score = Survivors[j].score
           /\ \E k \in Preds :
                  /\ Carried(Survivors[i].program, k).instructions
                         = Carried(Survivors[j].program, k).instructions
                  /\ Carried(Survivors[i].program, k).prefix
                         # Carried(Survivors[j].program, k).prefix
                  /\ \A q \in Preds \ {k} :
                         Carried(Survivors[i].program, q) = Carried(Survivors[j].program, q)
    /\ \E i \in 1..Len(Survivors) : Survivors[i].score # Survivors[1].score

\* C9: a consolidate call that triggers leaves no observation that was in
\* `used` before it in `used`, and leaves every one of them in `unused`.
C9_RetiredLeaveUsed ==
    [][(pc = "consolidate" /\ ConsolidationDue(used)) =>
          \A k \in 1..Len(used) :
              /\ used[k] \notin Range(used')
              /\ used[k] \in Range(unused')]_vars

\* C10: a consolidate call that triggers leaves at most max_observations // 2
\* observations in `used`, and after any consolidate step `used` holds at
\* most max_observations.
C10_UsedBoundedAfterConsolidate ==
    [][pc = "consolidate" =>
          /\ ConsolidationDue(used) => Len(used') <= NumReconciled
          /\ Len(used') <= max_metric_observations]_vars

\* The observations of a bucket, by identity.
ObsIds(bucket) == {bucket[k].id : k \in 1..Len(bucket)}

NoRepeats(bucket) == Cardinality(ObsIds(bucket)) = Len(bucket)

\* C11: in every state of a compile run each observation is in exactly one
\* of current, used and unused: no bucket holds an observation twice and no
\* two buckets share one.
C11_BucketsDisjoint ==
    /\ NoRepeats(current) /\ NoRepeats(used) /\ NoRepeats(unused)
    /\ ObsIds(current) \cap ObsIds(used) = {}
    /\ ObsIds(current) \cap ObsIds(unused) = {}
    /\ ObsIds(used) \cap ObsIds(unused) = {}

\* The observations a parent-index field cites in the list shown to the
\* prompt model, indices outside the list dropped, and their exemplar rows.
CitedParents(field, listed) ==
    {listed[i + 1] : i \in {j \in Range(safe_strip(field)) : j < Len(listed)}}

CitedRows(field, listed) ==
    UNION {Range(o.failure_exemplars) : o \in CitedParents(field, listed)}

\* The i-th observation the last consolidate call created.
Created(used_after, fields, i) == used_after[Len(used_after) - Len(fields) + i]

\* C12: every observation a triggering consolidate call creates has as its
\* exemplar rows the union of the rows of the parents its completion cites
\* in the list of `used` it was shown, out-of-range indices dropped (none
\* when it cites no valid parent), and the call raises nothing.
C12_ReconciledRowsAreParentsRows ==
    [][(pc = "consolidate" /\ ConsolidationDue(used)) =>
          /\ pc' = "record"
          /\ \A i \in 1..Len(reconciliation') :
                 Range(Created(used', reconciliation', i).failure_exemplars)
                     = CitedRows(reconciliation'[i], used)]_vars

\* C13: a propose call that succeeds leaves in `used` the previous `used`
\* followed by every member of the previous `current`, makes `current` the
\* newly created observations, one per completion of the 3 requested, and
\* leaves `unused` as it was.
C13_ProposeMovesCurrentToUsed ==
    [][(pc = "propose" /\ pc' = "consolidate") =>
          /\ used' = used \o current
          /\ Len(current') = NumProposals
          /\ Len(current') = Len(proposal')
          /\ NoRepeats(current')
          /\ ObsIds(current') \cap (ObsIds(current) \cup ObsIds(used) \cup ObsIds(unused)) = {}
          /\ unused' = unused]_vars

\* A propose call has just moved three earlier observations behind three
\* still earlier ones.
C13_Witness ==
    /\ pc = "consolidate"
    /\ Len(used) = 2 * NumProposals
    /\ Len(current) = NumProposals
    /\ ObsIds(used) \cap ObsIds(current) = {}

HasDigitRun(s) == \E i \in 1..Len(s) : IsDigit(s[i])

\* The failing rows handed to the propose call being made or just made.
FailedRows == RowsWhere(correct, FALSE, 0)

\* C14: propose raises its validation error exactly when the index field of
\* some completion, as it is parsed, has no digit run; when every field has
\* one, propose returns.
C14_RaisesIffSomeFieldHasNoDigits ==
    [][pc = "propose" =>
          LET parsed == ProposalFields(proposal', FailedRows)
              lacking == \E i \in 1..Len(parsed) : ~HasDigitRun(parsed[i])
          IN  /\ (pc' = "raised" /\ err' = "ValueError") <=> lacking
              /\ ~lacking => (pc' = "consolidate" /\ err' = "none")]_vars

\* propose raised on completions of which the second cites nothing while
\* failing rows were shown, the first and third citing row 0.
C14_Witness ==
    /\ pc = "raised"
    /\ err = "ValueError"
    /\ ~NoneShown(FailedRows, tokens_incorrect_example)
    /\ ~HasDigitRun(proposal[2])
    /\ HasDigitRun(proposal[1])

\* C15: completions citing rows out of range, all of their citations
\* included, never make compile raise: each observation is created from the
\* citations that are in range, and rendering the current observations for
\* the next generation request raises nothing.
C15_OutOfRangeCitationsNeverRaise ==
    /\ pc = "consolidate" =>
           \A i \in 1..Len(current) :
               current[i].failure_exemplars = InBounds(safe_strip(proposal[i]), DevN)
    /\ err # "IndexError"

\* C16: the exemplar rows of every observation propose creates are among
\* the failing rows passed to that call; a row the candidate succeeded on is
\* never an exemplar.
C16_ExemplarsAreFailingRows ==
    pc = "consolidate" =>
        \A i \in 1..Len(current) :
            Range(current[i].failure_exemplars) \subseteq Range(FailedRows)

\* C17: when the rendering of the failing rows is the "None Shown" text,
\* propose returns normally and installs as `current` one observation per
\* completion, each with no exemplar rows.
C17_NoneShownGivesEmptyExemplars ==
    [][(pc = "propose" /\ NoneShown(FailedRows, tokens_incorrect_example)) =>
          /\ pc' = "consolidate"
          /\ Len(current') = Len(proposal')
          /\ \A i \in 1..Len(current') : current'[i].failure_exemplars = <<>>]_vars

\* C18: a parse failure in propose ends compile there with the error raised
\* and no program returned; the candidate being evaluated is not recorded
\* and not counted in total_calls, the three buckets are as they were before
\* the call, and compile takes no further step.
C18_ParseFailureAbortsCleanly ==
    [][/\ pc # "raised"
       /\ (pc = "propose" /\ ProposeRaises(proposal', FailedRows)) =>
              /\ pc' = "raised"
              /\ err' = "ValueError"
              /\ result' = NoResult
              /\ evaluated_candidates' = evaluated_candidates
              /\ total_calls' = total_calls
              /\ Len(eval_log') = total_calls' + 1
              /\ current' = current /\ used' = used /\ unused' = unused]_vars

\* propose failed to parse a completion after earlier candidates had been
\* recorded and observations were held in `current` and `used`.
C18_Witness ==
    /\ pc = "raised"
    /\ err = "ValueError"
    /\ ~HasDigitRun(proposal[2])
    /\ total_calls >= 2
    /\ Len(eval_log) = total_calls + 1
    /\ Len(current) > 0
    /\ Len(used) > 0

\* C19: consolidate changes no bucket and sends no request while `used`
\* holds at most max_observations (15) observations; with more it sends
\* exactly one request, for max_observations // 2 (7) completions.
C19_ConsolidateOnlyAboveLimit ==
    [][pc = "consolidate" =>
          IF Len(used) <= max_metric_observations
          THEN /\ current' = current /\ used' = used /\ unused' = unused
               /\ prompt_log' = prompt_log
          ELSE /\ prompt_log' =
                      Append(prompt_log, Request("ReconcileMetric_Observations",
                                                 max_metric_observations \div 2))
               /\ Len(reconciliation') = max_metric_observations \div 2
               /\ used' # used]_vars

\* Consolidation has acted once: more than max_observations observations
\* were copied to `unused` after the one request, for 7 completions.
C19_Witness ==
    /\ pc = "record"
    /\ Len(unused) > max_metric_observations
    /\ Len(SelectSeq(prompt_log,
                     LAMBDA r : r.kind = "ReconcileMetric_Observations")) = 1
    /\ prompt_log[Len(prompt_log)].n = max_metric_observations \div 2

\* C20: the total_calls of the returned program is the number of calls of the
\* evaluator made during compile, one per round, predictor and candidate;
\* with one predictor that is breadth * depth.
C20_TotalCallsCountsEvaluations ==
    Done =>
        /\ result.total_calls = Len(eval_log)
        /\ \A i \in 1..Len(eval_log) : \A j \in (i + 1)..Len(eval_log) :
               <<eval_log[i].d, eval_log[i].p, eval_log[i].c>>
                   # <<eval_log[j].d, eval_log[j].p, eval_log[j].c>>
        /\ cfg.np = 1 => result.total_calls = cfg.breadth * cfg.depth

\* compile returned after two rounds of one predictor.
C20_Witness ==
    /\ Done
    /\ cfg.np = 1
    /\ cfg.depth = 2
    /\ result.total_calls = cfg.breadth * cfg.depth
    /\ Len(eval_log) = result.total_calls

\* C21: what compile returns or raises does not depend on the evaluation
\* set.  The evaluation set is read by one step only, the construction of
\* the history: that step takes compile to the same state whatever the
\* evaluation set, an empty one included.
C21_OutcomeIndependentOfEvalset ==
    [][pc = "construct" => (pc' = "seed" /\ err' = "none")]_vars

\* Every slot of a predictor carries the given instruction and prefix.
HoldsSig(pred, sig) == \A k \in 1..Len(pred) : pred[k] = sig

\* C22: when a candidate of predictor p_i is about to be evaluated in round
\* d, every earlier predictor of the working clone holds the instruction and
\* prefix of the best record of its store, selected in round d, and every
\* later predictor holds those of the best record selected in round d - 1,
\* or its original instruction and prefix in round 0.
C22_OtherPredictorsHeldAtBest ==
    pc = "evaluate" =>
        \A q \in Preds \ {p_i} :
            IF q > p_i /\ d = 0
            THEN module_clone[q] = student[q]
            ELSE \E j \in 1..Len(evaluated_candidates[q]) :
                     /\ IsBest(evaluated_candidates[q], j)
                     /\ HoldsSig(module_clone[q], RecordSig(evaluated_candidates[q][j]))
                     /\ evaluated_candidates[q][j].depth <= (IF q < p_i THEN d ELSE d - 1)

\* In round 1 a candidate of the first predictor is evaluated while the
\* second holds a best record of round 0 that is not its original pair.
C22_Witness ==
    /\ pc = "evaluate"
    /\ d = 1
    /\ p_i = 1
    /\ cfg.np = 2
    /\ Carried(module_clone, 2) # Baseline(2)
    /\ Carried(module_clone, 2).prefix # Baseline(2).prefix

\* Where the pool evaluated in round dd starts in the list of all the
\* candidates of a predictor, and how many candidates it holds, by the claim.
PoolStart(dd) == IF cfg.np = 1 THEN cfg.breadth * dd ELSE 0

PoolSize(dd) == IF cfg.np = 1 THEN cfg.breadth ELSE cfg.breadth * (dd + 1)

NormalizedCand(c) == Sig(Normalize(c.proposed_instruction),
                         Normalize(c.proposed_prefix_for_output_field))

\* C23: with one predictor, round d evaluates exactly the B candidates
\* generated at the end of round d - 1 (the seeds in round 0) and none of an
\* earlier round; with more than one predictor, round d evaluates for each
\* predictor every candidate accumulated for it so far, B * (d + 1) of them.
C23_PoolPerRound ==
    /\ \A k \in 1..Len(eval_log) :
           LET e == eval_log[k]
           IN  /\ e.c \in 1..PoolSize(e.d)
               /\ Carried(e.program, e.p)
                      = NormalizedCand(all_candidates[e.p][PoolStart(e.d) + e.c])
    /\ Done =>
           \A dd \in 0..(cfg.depth - 1) : \A p \in Preds :
               /\ {eval_log[k].c : k \in {j \in 1..Len(eval_log) :
                                             eval_log[j].d = dd /\ eval_log[j].p = p}}
                      = 1..PoolSize(dd)
               /\ Len(all_candidates[p]) = cfg.breadth * cfg.depth

\* compile returned after a program of two predictors went through a second
\* round of four candidates each.
C23_Witness ==
    /\ Done
    /\ cfg.np = 2
    /\ \E k \in 1..Len(eval_log) :
           eval_log[k].d = 1 /\ eval_log[k].p = 2 /\ eval_log[k].c = 2 * cfg.breadth

GenerationKinds == {"BasicGenerateInstruction", "GenerateInstructionGivenAttempts"}

\* Candidate p, i of all_candidates has been through the evaluator.
Evaluated(log, p, i) ==
    \E k \in 1..Len(log) :
        /\ log[k].p = p
        /\ PoolStart(log[k].d) + log[k].c = i
        /\ Carried(log[k].program, p) = NormalizedCand(all_candidates[p][i])

\* C24: a request for candidates is sent only at seeding and at the end of a
\* round d < D - 1, never after the last round, and when compile returns
\* every candidate such a request produced has been evaluated in some round.
C24_GenerationOnlyBeforeLastRound ==
    [][/\ (/\ prompt_log' # prompt_log
           /\ prompt_log'[Len(prompt_log')].kind \in GenerationKinds) =>
              \/ pc = "seed" /\ d = 0 /\ eval_log = <<>>
              \/ pc = "generate" /\ d < cfg.depth - 1
       /\ pc' = "done" =>
              /\ \A p \in Preds : \A i \in 1..Len(all_candidates'[p]) :
                     Evaluated(eval_log', p, i)
              /\ Len(SelectSeq(prompt_log', LAMBDA r : r.kind \in GenerationKinds))
                     = cfg.np * cfg.depth]_vars

\* compile returned after two rounds with one request for new candidates
\* between them.
C24_Witness ==
    /\ Done
    /\ cfg.depth = 2
    /\ Len(SelectSeq(prompt_log,
                     LAMBDA r : r.kind = "GenerateInstructionGivenAttempts")) = cfg.np
    /\ \A p \in Preds : Len(all_candidates[p]) = 2 * cfg.breadth

\* The candidate compile is working on.
Position == <<d, p_i, c_i>>

\* C25: for each candidate the steps are taken in the order apply, evaluate,
\* propose, consolidate, record; no step of the next candidate or predictor
\* is taken before the record step of the current one; and no step holds a
\* call of the evaluator together with a request to the prompt model.
C25_StrictlySequentialSteps ==
    [][/\ pc = "apply" => (pc' = "evaluate" /\ Position' = Position)
       /\ pc = "evaluate" => (pc' = "propose" /\ Position' = Position)
       /\ pc = "propose" => (pc' \in {"consolidate", "raised"} /\ Position' = Position)
       /\ pc = "consolidate" => (pc' = "record" /\ Position' = Position)
       /\ pc = "record" =>
              \/ pc' = "apply" /\ Position' = <<d, p_i, c_i + 1>>
              \/ pc' = "select" /\ Position' = Position
       /\ pc' = "apply" => total_calls' = Len(eval_log')
       /\ eval_log' # eval_log => (pc = "evaluate" /\ prompt_log' = prompt_log)
       /\ Len(eval_log') <= Len(eval_log) + 1
       /\ Len(prompt_log') <= Len(prompt_log) + 1]_vars

\* The second candidate of a pool is applied after the first was recorded.
C25_Witness ==
    /\ pc = "evaluate"
    /\ c_i = 2
    /\ total_calls = 1
    /\ Len(eval_log) = 1
    /\ Len(evaluated_candidates[1]) = 1

\* The list `used` as completion i of a consolidate call finds it, given
\* the list the call leaves.
UsedWhenHandling(used_after, fields, i) ==
    Prefix(used_after, Len(used_after) - Len(fields) + i - 1)

\* C26: in a consolidate call that triggers, every parent taken to build a
\* new observation was in `used` before the call: no completion takes as
\* parent an observation created earlier in the same call, and an index at
\* or beyond the length `used` had before the call is dropped.
C26_ParentsAreRetiredObservations ==
    [][(pc = "consolidate" /\ ConsolidationDue(used)) =>
          \A i \in 1..Len(reconciliation') :
              LET used_now == UsedWhenHandling(used', reconciliation', i)
              IN  /\ \A n \in Range(SafeParentIndices(reconciliation'[i], used_now)) :
                         n < Len(used)
                  /\ ObsIds(ParentsTaken(reconciliation'[i], used_now))
                         \subseteq ObsIds(used)]_vars

\* C27: the attempted instructions of a request for new candidates are the
\* min(B, number of records) records of the predictor with the greatest
\* scores, each once, in non-decreasing order of score, the best one last.
C27_AttemptsAreTopRecordsBestLast ==
    [][(pc = "generate" /\ prompt_log' # prompt_log) =>
          LET attempts == prompt_log'[Len(prompt_log')].attempts
              store == evaluated_candidates[p_i]
              listed == {j \in 1..Len(store) :
                            \E k \in 1..Len(attempts) : Attempt(store[j]) = attempts[k]}
          IN  /\ Len(attempts) = (IF Len(store) < cfg.breadth THEN Len(store)
                                  ELSE cfg.breadth)
              /\ Cardinality(listed) = Len(attempts)
              /\ \A k \in 1..(Len(attempts) - 1) :
                     attempts[k].score <= attempts[k + 1].score
              /\ \A j \in 1..Len(store) :
                     /\ store[j].score <= attempts[Len(attempts)].score
                     /\ j \notin listed => store[j].score <= attempts[1].score]_vars

\* A request was sent listing two records of different scores out of the
\* three the predictor has.
C27_Witness ==
    /\ pc = "apply"
    /\ cfg.np = 1
    /\ d = 2
    /\ c_i = 1
    /\ Len(evaluated_candidates[1]) = 3
    /\ Len(prompt_log[Len(prompt_log)].attempts) = 2
    /\ prompt_log[Len(prompt_log)].attempts[1].score
           < prompt_log[Len(prompt_log)].attempts[2].score

RECURSIVE PrefixCost(_, _)
\* The token cost of the first n rows of a table.
PrefixCost(df, n) == IF n = 0 THEN 0 ELSE PrefixCost(df, n - 1) + TokenCount(df[n])

\* The longest prefix of a table whose cost is within a budget.
LongestAffordable(df, budget) ==
    LET n == CHOOSE k \in 0..Len(df) :
                 /\ PrefixCost(df, k) <= budget
                 /\ \A m \in 0..Len(df) : PrefixCost(df, m) <= budget => m <= k
    IN  Prefix(df, n)

Rendered == render.stage \in {"rendered", "printed"}

ShownCount(text) == IF text.kind = "rows" THEN Len(text.rows) ELSE 0

\* C28: the renderer includes exactly the longest prefix of the rows, in
\* their order, whose cumulative token cost is within the budget, so no row
\* after the first that does not fit, and returns the sentinel naming the
\* number of rows when it includes none.
C28_RendersLongestAffordablePrefix ==
    Rendered =>
        IF LongestAffordable(render.df, render.budget) = <<>>
        THEN render.text = NoneShownText(Len(render.df))
        ELSE render.text = RowsText(LongestAffordable(render.df, render.budget))

\* Of three rows the first was shown, the second did not fit and the third,
\* which would have fit, was not shown.
C28_Witness ==
    /\ Rendered
    /\ Len(render.df) = 3
    /\ render.text = RowsText(<<render.df[1]>>)
    /\ TokenCount(render.df[2]) > render.budget
    /\ TokenCount(render.df[1]) + TokenCount(render.df[3]) <= render.budget

C30_StrMatchesRenderer ==
    render.stage = "printed" =>
        render.str = Rendering(render.df, example_token_budget)

\* The scores evaluated for predictor p in round dd on the B candidates its
\* pool received last.
OwnLatestScores(dd, p) ==
    LET own == SelectSeq(eval_log,
                         LAMBDA e : /\ e.d = dd
                                    /\ e.p = p
                                    /\ e.c > Len(Pool(p)) - cfg.breadth)
    IN  [k \in 1..Len(own) |-> own[k].score]

\* C31: the sample aggregated into results_latest for predictor p at depth
\* d, which is latest_scores when p's pool is exhausted, holds exactly the
\* scores of the B candidates generated last for p and evaluated in round d,
\* and no score obtained while another predictor was evaluated.
C31_LatestSampleIsOwnLatestScores ==
    pc = "select" => latest_scores = OwnLatestScores(d, p_i)

\* C32: from one step of compile to the next, every identity in the store
\* of a predictor stays in it with a score not below the one it had: the
\* stores only grow and no record is removed while compile runs.
C32_StoresGrowMonotonically ==
    [][\A p \in 1..Len(evaluated_candidates) :
           /\ Len(evaluated_candidates'[p]) >= Len(evaluated_candidates[p])
           /\ \A j \in 1..Len(evaluated_candidates[p]) :
                  \E i \in 1..Len(evaluated_candidates'[p]) :
                      /\ RecordSig(evaluated_candidates'[p][i])
                             = RecordSig(evaluated_candidates[p][j])
                      /\ evaluated_candidates'[p][i].score
                             >= evaluated_candidates[p][j].score]_vars

\* An identity keeps the score of its first evaluation after a second
\* evaluation of it scored lower and was counted, while another identity
\* has joined the store.
C32_Witness ==
    /\ pc \in {"apply", "select"}
    /\ \E p \in Preds : \E j \in 1..Len(evaluated_candidates[p]) :
           /\ Len(evaluated_candidates[p]) >= 2
           /\ \E k \in 1..total_calls :
                  /\ eval_log[k].p = p
                  /\ Carried(eval_log[k].program, p) = RecordSig(evaluated_candidates[p][j])
                  /\ eval_log[k].score < evaluated_candidates[p][j].score
                  /\ \E k0 \in 1..(k - 1) :
                         /\ eval_log[k0].p = p
                         /\ Carried(eval_log[k0].program, p)
                                = RecordSig(evaluated_candidates[p][j])
                         /\ eval_log[k0].score = evaluated_candidates[p][j].score

RECURSIVE CompletionsFor(_, _)
\* The candidates the prompt model returned in the loop iterations of
\* predictor p, in order, with p's own baseline after its seeding request.
CompletionsFor(log, p) ==
    IF log = <<>> THEN <<>>
    ELSE LET r == Head(log)
             own == IF r.kind \in GenerationKinds /\ r.predictor = p
                    THEN IF r.kind = "BasicGenerateInstruction"
                         THEN Append(r.completions,
                                     Cand(BasicInstruction(student[p]),
                                          BasicPrefix(student[p])))
                         ELSE r.completions
                    ELSE <<>>
         IN  own \o CompletionsFor(Tail(log), p)

\* Some evaluation for a later predictor used a candidate generated for an
\* earlier one.
EvaluatedWithEarlierPredictorsCandidate ==
    \E k \in 1..Len(eval_log) :
        \E r \in 1..Len(prompt_log) :
            /\ prompt_log[r].kind \in GenerationKinds
            /\ prompt_log[r].predictor < eval_log[k].p
            /\ \E j \in 1..Len(prompt_log[r].completions) :
                   Carried(eval_log[k].program, eval_log[k].p)
                       = NormalizedCand(prompt_log[r].completions[j])

\* C33 (as amended): the all-candidates pool is kept per predictor: the pool
\* of predictor p holds exactly the completions of the requests made for p
\* and p's own baseline, every evaluation for p applies a candidate of that
\* pool, and no evaluation for a later predictor applies a candidate that
\* was generated for an earlier predictor.
C33_EachPredictorEvaluatedWithOwnCandidates ==
    /\ \A p \in 1..Len(all_candidates) :
           all_candidates[p] = CompletionsFor(prompt_log, p)
    /\ \A k \in 1..Len(eval_log) :
           LET e == eval_log[k]
               own == CompletionsFor(prompt_log, e.p)
           IN  /\ PoolStart(e.d) + e.c \in 1..Len(own)
               /\ Carried(e.program, e.p)
                      = NormalizedCand(own[PoolStart(e.d) + e.c])
    /\ ~EvaluatedWithEarlierPredictorsCandidate

\* The second predictor has been evaluated in the second round, with a
\* candidate generated for it after the first round, while the first
\* predictor's pool holds generated candidates as well.
C33_Witness ==
    /\ cfg.np > 1
    /\ Len(all_candidates) = cfg.np
    /\ Len(all_candidates[1]) > cfg.breadth
    /\ \E k \in 1..Len(eval_log) :
           /\ eval_log[k].p = 2
           /\ eval_log[k].d = 1
           /\ eval_log[k].c > cfg.breadth

\* C33 (as stated): a finished run with more than one predictor has
\* evaluated a later predictor with a candidate generated for an earlier one.
C33_Original_LaterPredictorSeesEarlierCandidates ==
    (Done /\ cfg.np > 1) => EvaluatedWithEarlierPredictorsCandidate

\* C34: compile never changes the instruction or prefix of any predictor of
\* the student it was given, whether it returns or raises: every slot of
\* every predictor of the student is, in every state, what it was at the
\* call, and no step writes to it.
C34_StudentNeverChanged ==
    /\ student = Student(cfg.np, cfg.dual)
    /\ \A k \in 1..Len(student) :
           \A slot \in 1..Len(student[k]) : student[k][slot] = BaseSig(k)

\* compile has raised after candidates were applied and a best candidate was
\* fixed, and the working clone no longer carries the student's instructions.
C34_Witness ==
    /\ pc = "raised"
    /\ Len(eval_log) > cfg.breadth
    /\ \E k \in 1..Len(student) : Carried(module_clone, k) # Carried(student, k)

\* C35: at every point of compile, each record stored for predictor p under
\* identity (instruction, prefix) holds a program snapshot whose predictor p
\* carries exactly that instruction and prefix in every slot, and a step that
\* applies a candidate or fixes the best candidate on the working clone
\* leaves every stored snapshot as it was.
C35_SnapshotsCarryTheirIdentity ==
    [][/\ \A p \in 1..Len(evaluated_candidates') :
              \A j \in 1..Len(evaluated_candidates'[p]) :
                  LET rec == evaluated_candidates'[p][j]
                  IN  \A slot \in 1..Len(rec.program[p]) :
                          rec.program[p][slot] = RecordSig(rec)
       /\ (pc \in {"apply", "select"} /\ module_clone' # module_clone) =>
              /\ Len(evaluated_candidates') = Len(evaluated_candidates)
              /\ \A p \in 1..Len(evaluated_candidates) :
                     /\ Len(evaluated_candidates'[p]) = Len(evaluated_candidates[p])
                     /\ \A j \in 1..Len(evaluated_candidates[p]) :
                            evaluated_candidates'[p][j].program
                                = evaluated_candidates[p][j].program]_vars

\* A candidate has been applied to the working clone while a record stored
\* earlier for the same predictor carries another identity.
C35_Witness ==
    /\ pc = "evaluate"
    /\ \E j \in 1..Len(evaluated_candidates[p_i]) :
           LET rec == evaluated_candidates[p_i][j]
           IN  /\ Carried(rec.program, p_i) = RecordSig(rec)
               /\ Carried(module_clone, p_i) # RecordSig(rec)

\* C36: for each predictor, the score of the record fixed as its baseline at
\* the end of a round is greater than or equal to the score of the record
\* fixed for it at the end of the previous round.
C36_ChosenScoreNeverDrops ==
    \A i, j \in 1..Len(chosen) :
        (chosen[i].p = chosen[j].p /\ chosen[j].d = chosen[i].d + 1) =>
            chosen[j].score >= chosen[i].score

\* A predictor's second round evaluated only candidates that scored below
\* the record fixed for it after the first round, and the record fixed after
\* the second round scores the same as the first one.
C36_Witness ==
    \E i, j \in 1..Len(chosen) :
        /\ chosen[i].p = chosen[j].p
        /\ chosen[i].d = 0
        /\ chosen[j].d = 1
        /\ chosen[j].score = chosen[i].score
        /\ \A k \in 1..Len(eval_log) :
               (eval_log[k].p = chosen[j].p /\ eval_log[k].d = 1) =>
                   eval_log[k].score < chosen[i].score

\* C37: with 3 observations per propose call, when consolidation is checked
\* for the k-th evaluated candidate of a run (and has not triggered before)
\* `used` holds 3 * (k - 1) observations; the check does nothing for the
\* first 6 candidates and triggers for the first time on the 7th, where
\* `used` holds 18 > 15 observations.
C37_FirstConsolidationOnSeventh ==
    [][(pc = "consolidate" /\ unused = <<>>) =>
          LET k == Len(eval_log)
          IN  /\ Len(used) = NumProposals * (k - 1)
              /\ k <= 7
              /\ k <= 6 => /\ used' = used
                           /\ unused' = unused
                           /\ prompt_log' = prompt_log
              /\ k = 7 => /\ Len(used) = 18
                          /\ Len(prompt_log') = Len(prompt_log) + 1
                          /\ prompt_log'[Len(prompt_log')].kind
                                 = "ReconcileMetric_Observations"
                          /\ unused' = used]_vars

\* The seventh candidate has been evaluated and consolidation has just
\* triggered for the first time, on the 18 observations of the first six.
C37_Witness ==
    /\ pc = "record"
    /\ Len(eval_log) = 7
    /\ Len(unused) = 18
    /\ Len(SelectSeq(prompt_log,
                     LAMBDA r : r.kind = "ReconcileMetric_Observations")) = 1

\* An attempt has been answered and the function has not yet returned,
\* raised or called itself again.
ChatAttemptPending == chat.stage \in {"answered", "dispatch"}

\* C38: the chat request returns a value only from an attempt whose status
\* was 200; an attempt answered with status 429, 500, 400 or any other
\* non-200 status neither returns nor raises: it leads to a retry.
C38_ReturnsOnlyOn200RetriesOtherwise ==
    [][/\ (chat.stage # "returned" /\ chat'.stage = "returned") =>
              chat.status = 200
       /\ (ChatAttemptPending /\ chat.status # 200) =>
              chat'.stage \notin {"returned", "raised"}]_vars

\* C39: every chat request eventually returns, and what it returns is the
\* output of an attempt the service answered with status 200.
C39_ChatRequestEventuallyReturns ==
    (chat.stage = "post" /\ chat.depth = 1) ~>
        (chat.stage = "returned" /\ chat.status = 200 /\ chat.result = chat.depth)

====
